---- MODULE Spec2Model ----
(***************************************************************************)
(* Model of monai/apps/datasets.py: the constructors of MedNISTDataset and *)
(* DecathlonDataset and their _generate_data_list methods.                 *)
(*                                                                         *)
(* One behaviour is a program that constructs datasets of one class, one   *)
(* after the other (Python constructors are synchronous), over one file    *)
(* system, always with the same seed and split fractions, and with any     *)
(* section, download flag and task.  Every successful construction of a    *)
(* recognized section is remembered in `built`, so that the lists of       *)
(* different constructions can be compared.                                *)
(*                                                                         *)
(* Fractions and random draws are multiples of 1/Denom: the number k       *)
(* stands for k/Denom, so a draw is in 0..Denom-1, i.e. in [0,1).          *)
(* val_frac + test_frac is the same expression wherever the code compares  *)
(* a draw with it, so its rounding is the same in every section.           *)
(* The values of a seed's stream are not known: `stream` fixes each value   *)
(* the first time it is drawn, and every choice is explored.               *)
(* Class directory names are modelled by their rank in sorted order.       *)
(***************************************************************************)
EXTENDS Integers, Sequences, FiniteSets

\* Resolution of fractions and draws: k stands for k/Denom.
Denom == 3
\* Largest number of records in the dataset directory (files of all class
\* directories together; records of one manifest section).
MaxRecords == 2

Draws == 0 .. (Denom - 1)
Fractions == 0 .. (Denom - 1)
Seeds == {0}
Names == {1, 2}

Classes == {"MedNISTDataset", "DecathlonDataset"}
Sections == {"training", "validation", "test"}
SectionInputs == Sections \cup {"other"}

\* keys of DecathlonDataset.resource
Tasks ==
  {"Task01_BrainTumour", "Task02_Heart", "Task03_Liver", "Task04_Hippocampus",
   "Task05_Prostate", "Task06_Lung", "Task07_Pancreas", "Task08_HepaticVessel",
   "Task09_Spleen", "Task10_Colon"}
TaskInputs == {"Task09_Spleen", "Task11_Unknown"}

VARIABLES
  rootIsDir,        \* os.path.isdir(root_dir)
  datasetDirExists, \* os.path.exists(dataset_dir)
  tree,             \* content the MedNIST dataset directory has once it exists
  manifest,         \* content of dataset.json once the task directory exists
  stream,           \* the values RandomState(cfg.seed) has produced so far
  cfg,              \* class under construction, seed, val_frac, test_frac
  pc,               \* position of the running constructor
  args,             \* section, download, task of the running constructor
  self,             \* the instance's attributes: section, fractions, R, rann
  datalist,         \* the candidate records
  i,                \* number of candidates visited by the loop
  data,             \* the list being built
  draws,            \* the values self.R has returned to this constructor
  err,              \* the exception raised to the caller
  io,               \* the I/O and collaborator calls made by this constructor
  cacheData,        \* the argument of each CacheDataset.__init__ call
  existedAtCall,    \* datasetDirExists when the constructor was called
  built             \* the lists of the finished constructions, per section

env == <<rootIsDir, tree, manifest, cfg>>
vars == <<rootIsDir, datasetDirExists, tree, manifest, stream, cfg, pc, args,
          self, datalist, i, data, draws, err, io, cacheData, existedAtCall, built>>

None == "None"
NoError == [type |-> "none", what |-> "", options |-> {}]

RECURSIVE SumOver(_, _)
SumOver(f, S) ==
  IF S = {} THEN 0
  ELSE LET x == CHOOSE y \in S : TRUE IN f[x] + SumOver(f, S \ {x})

Range(s) == {s[k] : k \in 1 .. Len(s)}

\* The dataset directory: os.listdir returns its entries in reverse name
\* order (the order that leaves sorted() the most to do).  The entries are the
\* class directories, each with some files, and one plain file.
PlainFile == Cardinality(Names) + 1
Entries == Names \cup {PlainFile}
Listing == [k \in 1 .. Cardinality(Entries) |-> Cardinality(Entries) + 1 - k]
Trees ==
  {t \in [listing : {Listing}, isdir : {[n \in Entries |-> n \in Names]},
          files : [Entries -> 0 .. MaxRecords]] :
     /\ \A n \in Entries : ~t.isdir[n] => t.files[n] = 0
     /\ SumOver(t.files, Entries) <= MaxRecords}
EmptyTree == [listing |-> Listing, isdir |-> [n \in Entries |-> n \in Names],
              files |-> [n \in Entries |-> 0]]

Manifests == [training : 0 .. MaxRecords, test : 0 .. MaxRecords]
EmptyManifest == [training |-> 0, test |-> 0]

(***************************************************************************)
(* MedNISTDataset._generate_data_list: the record list of the directory    *)
(***************************************************************************)

\* sorted(...) of a set of names
RECURSIVE Sorted(_)
Sorted(S) ==
  IF S = {} THEN <<>>
  ELSE LET m == CHOOSE x \in S : \A y \in S : x <= y
       IN <<m>> \o Sorted(S \ {m})

\* class_names: the sub-directories of the dataset directory, sorted
class_names(t) == Sorted({t.listing[k] : k \in {j \in 1 .. Len(t.listing) : t.isdir[t.listing[j]]}})

\* image_files[c]: the paths of the files of class directory c, as listed;
\* zipped with the class index (0-based, as range(num_class) counts)
RECURSIVE ImageRecords(_, _, _)
ImageRecords(t, names, c) ==
  IF c > Len(names) THEN <<>>
  ELSE [k \in 1 .. t.files[names[c]] |->
          [image |-> <<names[c], k>>, label |-> c - 1]]
       \o ImageRecords(t, names, c + 1)

\* image_files_list and image_class, one record per index
image_files_list(t) == ImageRecords(t, class_names(t), 1)

\* Mutant of MedNIST_filter: training skips the draw val_frac + test_frac too.
MedNIST_filter_TrainingSkipsBoundary(section, rann, vf, tf) ==
  IF section = "training"
    THEN (IF rann <= vf + tf THEN "continue" ELSE "append")
  ELSE IF section = "validation"
    THEN (IF rann >= vf THEN "continue" ELSE "append")
  ELSE IF section = "test"
    THEN (IF rann < vf \/ rann >= vf + tf THEN "continue" ELSE "append")
  ELSE "raise"

\* Mutant of MedNIST_filter: test skips the draw val_frac too.
MedNIST_filter_TestSkipsBoundary(section, rann, vf, tf) ==
  IF section = "training"
    THEN (IF rann < vf + tf THEN "continue" ELSE "append")
  ELSE IF section = "validation"
    THEN (IF rann >= vf THEN "continue" ELSE "append")
  ELSE IF section = "test"
    THEN (IF rann <= vf \/ rann >= vf + tf THEN "continue" ELSE "append")
  ELSE "raise"

\* Mutant of MedNIST_filter: validation keeps the draw val_frac too.
MedNIST_filter_ValidationKeepsBoundary(section, rann, vf, tf) ==
  IF section = "training"
    THEN (IF rann < vf + tf THEN "continue" ELSE "append")
  ELSE IF section = "validation"
    THEN (IF rann > vf THEN "continue" ELSE "append")
  ELSE IF section = "test"
    THEN (IF rann < vf \/ rann >= vf + tf THEN "continue" ELSE "append")
  ELSE "raise"

\* the body of the loop, after self.randomize(): what happens to candidate i
MedNIST_filter(section, rann, vf, tf) ==
  IF section = "training"
    THEN (IF rann < vf + tf THEN "continue" ELSE "append")
  ELSE IF section = "validation"
    THEN (IF rann >= vf THEN "continue" ELSE "append")
  ELSE IF section = "test"
    THEN (IF rann < vf \/ rann >= vf + tf THEN "continue" ELSE "append")
  ELSE "raise"

(***************************************************************************)
(* DecathlonDataset._generate_data_list                                    *)
(***************************************************************************)

\* section = "training" if self.section in ["training", "validation"] else "test"
ManifestSection(section) ==
  IF section \in {"training", "validation"} THEN "training" ELSE "test"

\* load_decathalon_datalist(dataset.json, True, section): the records of the
\* named manifest section, in the manifest's order
load_decathalon_datalist(m, section) ==
  IF section = "training"
    THEN [k \in 1 .. m.training |-> [image |-> <<"imagesTr", k>>, label |-> <<"labelsTr", k>>]]
    ELSE [k \in 1 .. m.test |-> [image |-> <<"imagesTs", k>>, label |-> <<"none", k>>]]

\* Mutant of BypassSplit: the test records go through the loop as well.
BypassSplit_Never(section) == FALSE

\* if section == "test": return datalist
BypassSplit(section) == section = "test"

\* the body of the loop, after self.randomize()
Decathlon_filter(section, rann, vf) ==
  IF section = "training"
    THEN (IF rann < vf THEN "continue" ELSE "append")
    ELSE (IF rann >= vf THEN "continue" ELSE "append")

(***************************************************************************)
(* The random stream                                                       *)
(***************************************************************************)

\* Randomizable.set_random_state(seed): a generator of the instance's own,
\* at the start of the stream of that seed
set_random_state(seed) == [seed |-> seed, pos |-> 0]

\* Mutant of randomize: the draw comes from a generator that was not seeded.
randomize_Unseeded(R, v) == v \in Draws

\* randomize(): self.rann = self.R.random().  v is the value returned: the
\* next value of the seed's stream, which is fixed once it has been produced.
randomize(R, v) ==
  IF R.pos + 1 <= Len(stream) THEN v = stream[R.pos + 1] ELSE v \in Draws

\* the generator after one draw
Advance(R) == [R EXCEPT !.pos = @ + 1]

(***************************************************************************)
(* The constructors                                                        *)
(***************************************************************************)

\* Mutant of Successor: DecathlonDataset checks the task after the download.
Successor_TaskAfterDownload(cls, at) ==
  CASE at = "root"     -> "download"
    [] at = "download" -> IF cls = "DecathlonDataset" THEN "task" ELSE "exists"
    [] at = "task"     -> "exists"
    [] at = "exists"   -> "list"
    [] at = "list"     -> "loop"
    [] at = "loop"     -> "cache"
    [] at = "cache"    -> "done"

\* The order of the statements of __init__: the step after step `at`.
\* DecathlonDataset checks the task between set_random_state and the download.
Successor(cls, at) ==
  CASE at = "root"     -> IF cls = "DecathlonDataset" THEN "task" ELSE "download"
    [] at = "task"     -> "download"
    [] at = "download" -> "exists"
    [] at = "exists"   -> "list"
    [] at = "list"     -> "loop"
    [] at = "loop"     -> "cache"
    [] at = "cache"    -> "done"

\* if not os.path.isdir(root_dir)
RootInvalid(isdir) == ~isdir

\* if task not in self.resource
TaskUnsupported(task) == task \notin Tasks

\* Mutant of ShouldDownload: the constructor itself skips the call when the
\* dataset directory is there.
ShouldDownload_OnlyIfAbsent(download, exists) == download /\ ~exists

\* if download: download_and_extract(...)
ShouldDownload(download, exists) == download

\* Mutant of DatasetDirMissing: the check is left out.
DatasetDirMissing_Unchecked(exists) == FALSE

\* if not os.path.exists(dataset_dir)
DatasetDirMissing(exists) == ~exists

\* Mutant of CacheArgument: the unfiltered candidates are cached.
CacheArgument_Unfiltered(candidates, filtered) == candidates

\* the first argument of super().__init__(data, transform, ...)
CacheArgument(candidates, filtered) == filtered

\* download_and_extract(url, filepath, output_dir, md5): what it can leave
\* behind.  With the target present it does nothing; otherwise it extracts the
\* dataset directory, or leaves it absent, or raises (e.g. a checksum mismatch).
DownloadOutcomes(exists) ==
  IF exists THEN {"skipped"} ELSE {"extracted", "absent", "failed"}

ValueError(what, options) == [type |-> "ValueError", what |-> what, options |-> options]
RuntimeError(what) == [type |-> "RuntimeError", what |-> what, options |-> {}]
CollaboratorError(what) == [type |-> "CollaboratorError", what |-> what, options |-> {}]

BlankSelf == [section |-> None, val_frac |-> None, test_frac |-> None, R |-> None, rann |-> None]

TypeOK ==
  /\ rootIsDir \in BOOLEAN /\ datasetDirExists \in BOOLEAN
  /\ tree \in Trees /\ manifest \in Manifests
  /\ stream \in Seq(Draws) /\ Len(stream) <= MaxRecords
  /\ cfg \in [cls : Classes, seed : Seeds, val_frac : Fractions, test_frac : Fractions]
  /\ pc \in {"idle", "root", "task", "download", "exists", "list", "loop", "cache", "done", "raised"}
  /\ i \in 0 .. MaxRecords
  /\ DOMAIN built = Sections

Init ==
  /\ rootIsDir \in BOOLEAN
  /\ datasetDirExists \in BOOLEAN
  /\ cfg \in [cls : Classes, seed : Seeds, val_frac : Fractions, test_frac : Fractions]
  \* DecathlonDataset has no test_frac
  /\ cfg.cls = "DecathlonDataset" => cfg.test_frac = 0
  /\ tree \in Trees
  /\ cfg.cls = "DecathlonDataset" => tree = EmptyTree
  /\ manifest \in Manifests
  /\ cfg.cls = "MedNISTDataset" => manifest = EmptyManifest
  /\ stream = <<>>
  /\ pc = "idle"
  /\ args = [section |-> None, download |-> FALSE, task |-> None]
  /\ self = BlankSelf
  /\ datalist = <<>>
  /\ i = 0
  /\ data = <<>>
  /\ draws = <<>>
  /\ err = NoError
  /\ io = <<>>
  /\ cacheData = <<>>
  /\ existedAtCall = FALSE
  /\ built = [s \in Sections |-> {}]

\* The caller evaluates Dataset(root_dir, section, download=..., seed=..., ...):
\* a new object, a new frame.
Call ==
  /\ pc \in {"idle", "done", "raised"}
  /\ \E section \in SectionInputs, download \in BOOLEAN, task \in TaskInputs :
       /\ cfg.cls = "MedNISTDataset" => task = "Task09_Spleen"
       /\ args' = [section |-> section, download |-> download,
                   task |-> IF cfg.cls = "MedNISTDataset" THEN None ELSE task]
  /\ pc' = "root"
  /\ self' = BlankSelf
  /\ datalist' = <<>> /\ i' = 0 /\ data' = <<>> /\ draws' = <<>>
  /\ err' = NoError /\ io' = <<>> /\ cacheData' = <<>>
  /\ existedAtCall' = datasetDirExists
  /\ UNCHANGED <<env, datasetDirExists, stream, built>>

\* raise: the exception leaves the constructor
Raise(e) ==
  /\ pc' = "raised"
  /\ err' = e

\* __init__, up to set_random_state
CheckRoot ==
  /\ pc = "root"
  /\ io' = Append(io, "isdir")
  /\ IF RootInvalid(rootIsDir)
       THEN /\ Raise(ValueError("root_dir", {}))
            /\ UNCHANGED self
       ELSE /\ self' = [section |-> args.section, val_frac |-> cfg.val_frac,
                        test_frac |-> IF cfg.cls = "MedNISTDataset" THEN cfg.test_frac ELSE None,
                        R |-> set_random_state(cfg.seed), rann |-> None]
            /\ pc' = Successor(cfg.cls, "root")
            /\ UNCHANGED err
  /\ UNCHANGED <<env, datasetDirExists, stream, built, args, datalist, i, data, draws, cacheData, existedAtCall>>

\* DecathlonDataset.__init__: if task not in self.resource
CheckTask ==
  /\ pc = "task"
  /\ IF TaskUnsupported(args.task)
       THEN Raise(ValueError("task", Tasks))
       ELSE pc' = Successor(cfg.cls, "task") /\ UNCHANGED err
  /\ UNCHANGED <<env, datasetDirExists, stream, built, args, self, datalist, i, data, draws, cacheData, existedAtCall, io>>

\* if download: download_and_extract(...)
Download ==
  /\ pc = "download"
  /\ IF ShouldDownload(args.download, datasetDirExists)
       THEN /\ io' = Append(io, "download_and_extract")
            /\ \E outcome \in DownloadOutcomes(datasetDirExists) :
                 /\ datasetDirExists' = (datasetDirExists \/ outcome = "extracted")
                 /\ IF outcome = "failed"
                      THEN Raise(CollaboratorError("download_and_extract"))
                      ELSE pc' = Successor(cfg.cls, "download") /\ UNCHANGED err
       ELSE /\ pc' = Successor(cfg.cls, "download")
            /\ UNCHANGED <<io, datasetDirExists, err>>
  /\ UNCHANGED <<env, stream, built, args, self, datalist, i, data, draws, cacheData, existedAtCall>>

\* if not os.path.exists(dataset_dir): raise RuntimeError
CheckDir ==
  /\ pc = "exists"
  /\ io' = Append(io, "exists")
  /\ IF DatasetDirMissing(datasetDirExists)
       THEN Raise(RuntimeError("dataset_dir"))
       ELSE pc' = Successor(cfg.cls, "exists") /\ UNCHANGED err
  /\ UNCHANGED <<env, datasetDirExists, stream, built, args, self, datalist, i, data, draws, cacheData, existedAtCall>>

\* MedNISTDataset._generate_data_list, up to the loop
M_List ==
  /\ pc = "list" /\ cfg.cls = "MedNISTDataset"
  /\ io' = Append(io, "listdir")
  /\ datalist' = image_files_list(tree)
  /\ data' = <<>> /\ i' = 0
  /\ pc' = Successor(cfg.cls, "list")
  /\ UNCHANGED <<env, datasetDirExists, stream, built, args, self, draws, err, cacheData, existedAtCall>>

\* one pass of `for i in range(num_total)`
M_Iterate ==
  /\ pc = "loop" /\ cfg.cls = "MedNISTDataset"
  /\ i < Len(datalist)
  /\ \E v \in Draws :
       /\ randomize(self.R, v)
       /\ stream' = IF self.R.pos + 1 > Len(stream) THEN Append(stream, v) ELSE stream
       /\ self' = [self EXCEPT !.rann = v, !.R = Advance(@)]
       /\ draws' = Append(draws, v)
       /\ LET todo == MedNIST_filter(self.section, v, self.val_frac, self.test_frac)
          IN  /\ data' = IF todo = "append" THEN Append(data, datalist[i + 1]) ELSE data
              /\ IF todo = "raise"
                   THEN Raise(ValueError("section", Sections))
                   ELSE UNCHANGED <<pc, err>>
  /\ i' = i + 1
  /\ UNCHANGED <<env, datasetDirExists, built, args, datalist, io, cacheData, existedAtCall>>

\* DecathlonDataset._generate_data_list, up to the loop
D_Load ==
  /\ pc = "list" /\ cfg.cls = "DecathlonDataset"
  /\ io' = Append(io, "load_decathalon_datalist")
  /\ LET section == ManifestSection(self.section)
         loaded == load_decathalon_datalist(manifest, section)
     IN  /\ datalist' = loaded
         /\ i' = 0
         /\ IF BypassSplit(section)
              THEN data' = loaded /\ pc' = "cache"
              ELSE data' = <<>> /\ pc' = Successor(cfg.cls, "list")
  /\ UNCHANGED <<env, datasetDirExists, stream, built, args, self, draws, err, cacheData, existedAtCall>>

\* one pass of `for i in datalist`
D_Iterate ==
  /\ pc = "loop" /\ cfg.cls = "DecathlonDataset"
  /\ i < Len(datalist)
  /\ \E v \in Draws :
       /\ randomize(self.R, v)
       /\ stream' = IF self.R.pos + 1 > Len(stream) THEN Append(stream, v) ELSE stream
       /\ self' = [self EXCEPT !.rann = v, !.R = Advance(@)]
       /\ draws' = Append(draws, v)
       /\ data' = IF Decathlon_filter(self.section, v, self.val_frac) = "append"
                    THEN Append(data, datalist[i + 1]) ELSE data
  /\ i' = i + 1
  /\ UNCHANGED <<env, datasetDirExists, built, args, datalist, io, cacheData, existedAtCall, pc, err>>

\* return data, at the end of the loop
Return ==
  /\ pc = "loop"
  /\ i = Len(datalist)
  /\ pc' = Successor(cfg.cls, "loop")
  /\ UNCHANGED <<env, datasetDirExists, stream, built, args, self, datalist, i, data, draws, err, io, cacheData, existedAtCall>>

\* super().__init__(data, transform, ...): the constructor is done
CacheInit ==
  /\ pc = "cache"
  /\ io' = Append(io, "CacheDataset")
  /\ cacheData' = Append(cacheData, CacheArgument(datalist, data))
  /\ built' = IF args.section \in Sections
                THEN [built EXCEPT ![args.section] = @ \cup {[data |-> data, draws |-> draws]}]
                ELSE built
  /\ pc' = Successor(cfg.cls, "cache")
  /\ UNCHANGED <<env, datasetDirExists, stream, args, self, datalist, i, data, draws, err, existedAtCall>>

Next ==
  \/ Call
  \/ CheckRoot
  \/ CheckTask
  \/ Download
  \/ CheckDir
  \/ M_List
  \/ M_Iterate
  \/ D_Load
  \/ D_Iterate
  \/ Return
  \/ CacheInit

Spec == Init /\ [][Next]_vars

(***************************************************************************)
(* Properties                                                              *)
(***************************************************************************)

\* number of times x occurs in sequence s
Occurrences(s, x) == Cardinality({k \in 1 .. Len(s) : s[k] = x})

\* s holds elements of t, in the order they have in t (t has no duplicates)
InOrderOf(s, t) == s = SelectSeq(t, LAMBDA x : x \in Range(s))

\* the candidate sequence a construction of `section` enumerates
Candidates(section) ==
  IF cfg.cls = "MedNISTDataset" THEN image_files_list(tree)
  ELSE load_decathalon_datalist(manifest, ManifestSection(section))

Recognized == args.section \in Sections
ListBuilt == pc \in {"cache", "done"}

\* the candidate visited last was appended to data
KeptLast == i >= 1 /\ Len(data) >= 1 /\ data[Len(data)] = datalist[i]

ArgumentError == err.type = "ValueError" /\ err.what \in {"root_dir", "task"}

\* C1: MedNISTDataset with val_frac + test_frac < 1: the lists built for
\* training, validation and test with the same seed over the same candidates
\* together hold every candidate exactly once, and nothing else.
Thm_C1_PartitionCover ==
  (cfg.cls = "MedNISTDataset" /\ cfg.val_frac + cfg.test_frac < Denom) =>
    \A tr \in built["training"], va \in built["validation"], te \in built["test"] :
      LET candidates == Range(Candidates("training"))
      IN  /\ \A c \in candidates :
               Occurrences(tr.data, c) + Occurrences(va.data, c) + Occurrences(te.data, c) = 1
          /\ Range(tr.data) \cup Range(va.data) \cup Range(te.data) \subseteq candidates

Wit_C1_ThreeListsBuilt ==
  /\ cfg.cls = "MedNISTDataset" /\ cfg.val_frac + cfg.test_frac < Denom
  /\ Len(Candidates("training")) >= 2
  /\ \E tr \in built["training"], va \in built["validation"], te \in built["test"] :
       Len(tr.data) = 1 /\ Len(va.data) + Len(te.data) >= 1

\* C2: a construction with the same seed, directory contents, fractions and
\* section as an earlier one sees the same draws and builds the same record
\* sequence, whatever was constructed in between; the records kept are in the
\* order the candidates have.
Thm_C2_Determinism ==
  (ListBuilt /\ Recognized) =>
    /\ \A b \in built[args.section] : b = [data |-> data, draws |-> draws]
    /\ InOrderOf(data, Candidates(args.section))

Wit_C2_BuiltAgain ==
  /\ pc = "cache" /\ Recognized
  /\ built[args.section] # {}
  /\ \E s \in Sections \ {args.section} : built[s] # {}
  /\ Len(datalist) >= 2 /\ Len(data) >= 1

\* C3: MedNISTDataset keeps a candidate with draw r for training iff
\* r >= val_frac + test_frac, for validation iff r < val_frac, and for test
\* iff val_frac <= r < val_frac + test_frac.
Thm_C3_Thresholds ==
  (cfg.cls = "MedNISTDataset" /\ pc \in {"loop", "cache", "done"} /\ i >= 1 /\ Recognized) =>
    LET r == self.rann
        vf == cfg.val_frac
        tf == cfg.test_frac
    IN  /\ self.section = "training" => (KeptLast <=> r >= vf + tf)
        /\ self.section = "validation" => (KeptLast <=> r < vf)
        /\ self.section = "test" => (KeptLast <=> (vf <= r /\ r < vf + tf))

Wit_C3_BoundaryDraw ==
  /\ cfg.cls = "MedNISTDataset" /\ pc = "loop" /\ i >= 1
  /\ self.section = "test" /\ self.rann = cfg.val_frac /\ cfg.val_frac > 0
  /\ KeptLast

\* C4: in both classes, list building with an unrecognized section raises
\* ValueError and returns no list, for every candidate sequence.
CE_C4_UnrecognizedSectionRaises ==
  ~Recognized =>
    /\ ~ListBuilt
    /\ (pc = "raised" /\ Range(io) \cap {"listdir", "load_decathalon_datalist"} # {}) =>
         err = ValueError("section", Sections)

\* C5 as claimed: with the dataset directory present at construction and
\* download=True, the constructor makes no call of download_and_extract.
CE_C5_NoCallWhenPresent ==
  (existedAtCall /\ args.download) => Occurrences(io, "download_and_extract") = 0

\* C5 as amended: once root_dir (and the task) are accepted, the constructor
\* calls download_and_extract exactly once if download=True, also when the
\* dataset directory is already there, and never if download=False.
Thm_C5_OneCallIffDownload ==
  (pc \in {"exists", "list", "loop", "cache", "done"} \/ (pc = "raised" /\ ~ArgumentError)) =>
    Occurrences(io, "download_and_extract") = (IF args.download THEN 1 ELSE 0)

Wit_C5_CalledThoughPresent ==
  /\ existedAtCall /\ args.download /\ pc = "done"
  /\ Occurrences(io, "download_and_extract") = 1

\* C6: a root_dir that is no directory raises ValueError; an unknown task on a
\* valid root raises ValueError listing the valid tasks; a dataset directory
\* that is missing when checked raises RuntimeError before any list building.
Thm_C6_InvalidInputRejected ==
  /\ (pc \notin {"idle", "root"} /\ ~rootIsDir) =>
       (pc = "raised" /\ err = ValueError("root_dir", {}))
  /\ (cfg.cls = "DecathlonDataset" /\ pc \notin {"idle", "root", "task"} /\ rootIsDir
        /\ args.task \notin Tasks) =>
       (pc = "raised" /\ err.type = "ValueError" /\ err.what = "task" /\ err.options = Tasks)
  /\ ("exists" \in Range(io) /\ ~datasetDirExists) =>
       /\ pc = "raised" /\ err = RuntimeError("dataset_dir")
       /\ Range(io) \cap {"listdir", "load_decathalon_datalist", "CacheDataset"} = {}
       /\ draws = <<>> /\ data = <<>>

Wit_C6_MissingAfterDownload ==
  /\ pc = "raised" /\ err.type = "RuntimeError"
  /\ args.download /\ "download_and_extract" \in Range(io)

\* C7 as claimed: every ValueError is raised with no I/O done but the check
\* of root_dir.
CE_C7_ValueErrorBeforeIO ==
  err.type = "ValueError" => io = <<"isdir">>

\* C7 as amended: the ValueError for root_dir and the one for the task are
\* raised with no I/O done but the check of root_dir; the ValueError for the
\* section is raised by MedNISTDataset while it builds the list, at the first
\* candidate: after the download (if asked for), the check of the dataset
\* directory, the directory listing and one draw, and before any caching.
Thm_C7_ArgumentErrorsEarly ==
  /\ (err.type = "ValueError" /\ err.what \in {"root_dir", "task"}) => io = <<"isdir">>
  /\ (err.type = "ValueError" /\ err.what = "section") =>
       /\ cfg.cls = "MedNISTDataset" /\ pc = "raised"
       /\ io = <<"isdir">> \o (IF args.download THEN <<"download_and_extract">> ELSE <<>>)
                 \o <<"exists", "listdir">>
       /\ Len(draws) = 1 /\ i = 1

Wit_C7_SectionErrorLate ==
  /\ pc = "raised" /\ err.type = "ValueError" /\ err.what = "section"
  /\ args.download

\* C8: CacheDataset.__init__ is called at most once per constructor, only
\* after validation, download, directory check and list building have ended
\* without error, and with the filtered list; a constructor that raised has
\* not called it, and has made no call twice.
Thm_C8_CacheOnlyOnSuccess ==
  /\ Len(cacheData) = Occurrences(io, "CacheDataset")
  /\ Len(cacheData) <= 1
  /\ \A e \in Range(io) : Occurrences(io, e) = 1
  /\ Len(cacheData) = 1 =>
       /\ pc = "done" /\ err = NoError
       /\ cacheData[1] = data
       /\ InOrderOf(data, Candidates(args.section))
       /\ io = <<"isdir">> \o (IF args.download THEN <<"download_and_extract">> ELSE <<>>)
                 \o <<"exists">>
                 \o (IF cfg.cls = "MedNISTDataset" THEN <<"listdir">> ELSE <<"load_decathalon_datalist">>)
                 \o <<"CacheDataset">>
  /\ pc = "raised" => (err # NoError /\ cacheData = <<>>)
  /\ pc # "raised" => err = NoError

Wit_C8_CachedFilteredList ==
  /\ pc = "done" /\ Len(cacheData) = 1
  /\ Len(data) >= 1 /\ Len(data) < Len(datalist)

\* C9 as claimed: MedNISTDataset with val_frac + test_frac >= 1 raises no
\* error and there is a draw for which none of the three sections keeps the
\* candidate.
CE_C9_SomeDrawDropped ==
  (cfg.cls = "MedNISTDataset" /\ cfg.val_frac + cfg.test_frac >= Denom /\ pc = "done" /\ Recognized) =>
    \E r \in Draws : \A s \in Sections :
      MedNIST_filter(s, r, cfg.val_frac, cfg.test_frac) = "continue"

\* C9 as amended: MedNISTDataset with val_frac + test_frac >= 1 raises no
\* error for a recognized section, the training list is empty, and every
\* candidate is in exactly one of the validation and test lists.
Thm_C9_NoneDroppedTrainingEmpty ==
  (cfg.cls = "MedNISTDataset" /\ cfg.val_frac + cfg.test_frac >= Denom) =>
    /\ (Recognized /\ pc = "raised") => err.what # "section"
    /\ \A tr \in built["training"] : tr.data = <<>>
    /\ \A va \in built["validation"], te \in built["test"] :
         \A c \in Range(Candidates("test")) :
           Occurrences(va.data, c) + Occurrences(te.data, c) = 1

Wit_C9_OverfullFractions ==
  /\ cfg.cls = "MedNISTDataset" /\ cfg.val_frac + cfg.test_frac >= Denom
  /\ built["training"] # {}
  /\ \E va \in built["validation"], te \in built["test"] : Len(va.data) = 1 /\ Len(te.data) = 1

\* C10: list building for a recognized section makes one draw per candidate,
\* in enumeration order, kept or not; DecathlonDataset's test section makes no
\* draw and returns the manifest's test records as they are.
Thm_C10_DrawPerCandidate ==
  /\ pc = "loop" => (self.R.pos = i /\ Len(draws) = i)
  /\ (ListBuilt /\ Recognized) =>
       /\ datalist = Candidates(args.section)
       /\ IF cfg.cls = "DecathlonDataset" /\ args.section = "test"
            THEN /\ self.R.pos = 0 /\ draws = <<>>
                 /\ data = load_decathalon_datalist(manifest, "test")
            ELSE /\ self.R.pos = Len(datalist) /\ Len(draws) = Len(datalist)
                 /\ i = Len(datalist)

Wit_C10_DrawsForDropped ==
  /\ cfg.cls = "DecathlonDataset" /\ args.section = "validation" /\ pc = "cache"
  /\ Len(datalist) >= 2 /\ data = <<>>
  /\ self.R.pos = 2

====
